---- MODULE Spec2Model ----
(***************************************************************************)
(* The navigation / search state-derivation core of the task-manager       *)
(* front end: BreadcrumbStore (the breadcrumb trail built from the route    *)
(* tree), PageContextStore (page context + search substate) and            *)
(* SearchDispatcher (handler registry and the RxJS search pipeline          *)
(*   searchSubject -> debounceTime -> distinctUntilChanged -> tap -> filter *)
(*                 -> switchMap(executeSearch) -> subscribe).               *)
(*                                                                         *)
(* Time is abstract: debounceTime holds the latest value in `pending` and  *)
(* its timer expires in the step DebounceFire; every dispatch()/clear()    *)
(* before the expiry replaces the held value and restarts the timer.       *)
(***************************************************************************)
EXTENDS Integers, Sequences, FiniteSets, TLC

\* ------------------------------------------------------------------ bounds
\* handler.search calls whose Observable has not yet emitted or failed
MaxInFlight == 2
\* registerHandler / unregisterHandler calls in the history of the registry
MaxRegistryOps == 5
\* nodes on the active path of a route tree, root to leaf
MaxDepth == 2

\* ------------------------------------------------------- program constants
DEFAULT_SEARCH_OPTIONS == [debounceMs |-> 300, minQueryLength |-> 2, cancelPrevious |-> TRUE]

\* ------------------------------------------------------------ input domains
\* URLs a navigation can end on
Pages == {"/dashboard", "/dashboard/projects", "/dashboard/tasks"}
\* raw input strings of the search box
Queries == {"", "a", "ab", "abc"}
\* handlers that features register at run time
HandlerPool == {[pageId |-> "/dashboard/projects", hasCanHandle |-> FALSE, canHandle |-> {}],
                [pageId |-> "/dashboard/projects", hasCanHandle |-> TRUE, canHandle |-> {"/dashboard"}],
                [pageId |-> "/dashboard/tasks", hasCanHandle |-> TRUE,
                 canHandle |-> {"/dashboard", "/dashboard/projects"}],
                [pageId |-> "/dashboard", hasCanHandle |-> TRUE, canHandle |-> {"/dashboard/tasks"}]}
\* arguments of configure(): Partial<SearchOptions>
Partials == {[debounceMs |-> 100], [minQueryLength |-> 3],
             [debounceMs |-> 100, minQueryLength |-> 3]}
\* error.message of a failed handler result ("" = an error without message)
Messages == {"", "boom"}
\* result lists a caller can hand to setSearchResults
ResultLists == {<<>>,
                <<[id |-> "ab", url |-> "/dashboard/projects"]>>,
                <<[id |-> "abc", url |-> "/dashboard/tasks"],
                  [id |-> "abc", url |-> "/dashboard"]>>}
\* the null of `error: string | null`
Null == "null"

VARIABLES
  router,         \* Router: [url, root], root = the active path of
                  \* routerState.snapshot, a sequence of nodes root to leaf
  breadcrumbs,    \* BreadcrumbStore._breadcrumbs
  options,        \* SearchDispatcher.options
  dueTime,        \* the due time debounceTime was built with, in ms: how long
                  \* a value must stay the latest input before the timer expires
  registryLog,    \* history: the registerHandler / unregisterHandler calls made
  context,        \* PageContextStore._context
  searchState,    \* PageContextStore._searchState
  handlersMap,    \* SearchDispatcher.handlersMap, in insertion order
  pending,        \* debounceTime: <<>> or <<value waiting for the timer>>
  lastDistinct,   \* distinctUntilChanged: <<>> or <<last value it let through>>
  pipelineOpen,   \* the pipeline's subscription has not been closed by an error
  calls,          \* handler.search calls in flight, oldest first:
                  \* [handler, params, subscribed, superseded]; subscribed =
                  \* the call's Observable is switchMap's current inner;
                  \* superseded (history) = a later value has reached
                  \* switchMap since the call
  dispatchedOn,   \* history: <<pageId when the pending value was pushed>>
  burst,          \* history: the pending value was pushed by dispatch() while
                  \* a non-empty value was still waiting for the timer (a
                  \* burst of two or more pushes)
  failedSeen,     \* history: catchError has handled a failed handler result
  last            \* history: the last operation, the call it started or
                  \* ended (<<>>: none), whether it changed searchState, and
                  \* for a timer expiry whether the value ended a burst

vars == <<router, breadcrumbs, options, dueTime, registryLog,
          context, searchState, handlersMap, pending, lastDistinct, pipelineOpen,
          calls, dispatchedOn, burst, failedSeen, last>>

\* ------------------------------------------------------- PageContextStore
InitialSearchState == [query |-> "", isSearching |-> FALSE, results |-> <<>>, error |-> Null]

\* values of the untyped route data: undefined, a string, or an object
Undefined == [type |-> "undefined"]
Str(s) == [type |-> "string", value |-> s]
Obj(fields) == [type |-> "object", fields |-> fields]
Bool(b) == [type |-> "boolean", value |-> b]
\* a function of the route params: it returns prefix + params.id
Fn(prefix) == [type |-> "function", value |-> prefix, throws |-> FALSE]
\* a function of the route params that throws when it is called
FnThrows == [type |-> "function", value |-> "", throws |-> TRUE]
NullValue == [type |-> "null"]

Has(value, key) == value.type = "object" /\ key \in DOMAIN value.fields

\* config.k ?? default, for a string-valued optional field
OrElse(value, key, default) ==
  IF Has(value, key) /\ value.fields[key].type # "undefined"
    THEN value.fields[key].value ELSE default

createPageContext(pageTitle, pageId, searchPlaceholder, searchEnabled) ==
  [pageTitle |-> pageTitle, pageId |-> pageId,
   searchPlaceholder |-> searchPlaceholder, searchEnabled |-> searchEnabled]

DEFAULT_PAGE_CONTEXT == createPageContext("Dashboard", "/dashboard", "Search...", TRUE)

\* contexts a caller can hand to setContext
Contexts == {DEFAULT_PAGE_CONTEXT,
             createPageContext("Projects", "/dashboard/projects", "Search projects...", TRUE),
             createPageContext("Override", "/dashboard/tasks", "Search...", FALSE)}

isPageContextRouteConfig(value) ==
  /\ value.type = "object"
  /\ Has(value, "title")
  /\ value.fields["title"].type = "string"

\* a resolver in which the breadcrumb label wins over the pageContext config
buildContextBreadcrumbFirst(data, url) ==
  IF data.breadcrumb.type = "string"
    THEN createPageContext(data.breadcrumb.value, url, "Search...", TRUE)
  ELSE IF isPageContextRouteConfig(data.pageContext)
    THEN createPageContext(data.pageContext.fields["title"].value, url,
                           OrElse(data.pageContext, "searchPlaceholder", "Search..."),
                           ~ OrElse(data.pageContext, "searchDisabled", FALSE))
  ELSE createPageContext("Dashboard", url, "Search...", TRUE)

\* buildContextFromRoute, given the data of the deepest active leaf
buildContextFromRoute(data, url) ==
  IF isPageContextRouteConfig(data.pageContext)
    THEN createPageContext(data.pageContext.fields["title"].value, url,
                           OrElse(data.pageContext, "searchPlaceholder", "Search..."),
                           ~ OrElse(data.pageContext, "searchDisabled", FALSE))
  ELSE IF data.breadcrumb.type = "string"
    THEN createPageContext(data.breadcrumb.value, url, "Search...", TRUE)
  ELSE createPageContext("Dashboard", url, "Search...", TRUE)

\* the deepest active route: follow firstChild to the end
deepest(route) == route[Len(route)]

\* the route data of the leaf each URL resolves to
RouteData(url) ==
  CASE url = "/dashboard/projects" ->
         [pageContext |-> Obj([title |-> Str("Projects"),
                               searchPlaceholder |-> Str("Search projects...")]),
          breadcrumb |-> Str("Projects")]
    [] url = "/dashboard/tasks" ->
         [pageContext |-> Undefined, breadcrumb |-> Str("Tasks")]
    [] OTHER -> [pageContext |-> Undefined, breadcrumb |-> Undefined]

\* a node of the route tree: its URL segments, its params and its data
RouteNode(url, id, data) == [url |-> url, params |-> [id |-> id], data |-> data]

\* the active path the router resolves each URL of Pages to
RouteTree(url) ==
  LET none == [pageContext |-> Undefined, breadcrumb |-> Undefined]
      root == RouteNode(<<>>, "", none)
      dashboard == RouteNode(<<"dashboard">>, "", none)
  IN CASE url = "/dashboard/projects" ->
            <<root, dashboard, RouteNode(<<"projects">>, "", RouteData(url))>>
       [] url = "/dashboard/tasks" ->
            <<root, dashboard, RouteNode(<<"tasks">>, "", RouteData(url))>>
       [] OTHER -> <<root, dashboard>>

\* route nodes a navigation can go through: with and without URL segments
\* (a route of path '' can carry breadcrumb data as well),
\* breadcrumb data absent, null, a string, a config (label a string or a
\* function, with and without skip and icon) or malformed, pageContext data
\* absent, null, a string, a config (with and without the optional fields)
\* or without a string title
RoutePool ==
  { RouteNode(<<>>, "", [pageContext |-> Undefined, breadcrumb |-> Undefined]),
    RouteNode(<<>>, "", [pageContext |-> NullValue, breadcrumb |-> NullValue]),
    RouteNode(<<>>, "", [pageContext |-> Undefined, breadcrumb |-> Str("Start")]),
    RouteNode(<<"dashboard">>, "", [pageContext |-> Undefined, breadcrumb |-> Str("Dashboard")]),
    RouteNode(<<"projects">>, "",
              [pageContext |-> Obj([title |-> Str("All projects")]),
               breadcrumb |-> Obj([label |-> Str("Projects"), icon |-> Str("folder")])]),
    RouteNode(<<"projects">>, "",
              [pageContext |-> Obj([title |-> Str("All projects"),
                                    searchPlaceholder |-> Str("Find a project"),
                                    searchDisabled |-> Bool(TRUE)]),
               breadcrumb |-> Str("Projects")]),
    RouteNode(<<"tasks", "7">>, "7",
              [pageContext |-> Obj([title |-> Str("Task"), searchDisabled |-> Bool(FALSE)]),
               breadcrumb |-> Obj([label |-> Fn("Task "), skip |-> Bool(FALSE)])]),
    RouteNode(<<"tasks">>, "",
              [pageContext |-> Undefined, breadcrumb |-> Obj([label |-> Str("Tasks")])]),
    RouteNode(<<"settings">>, "",
              [pageContext |-> Obj([searchPlaceholder |-> Str("Find a setting")]),
               breadcrumb |-> Obj([label |-> Str("Settings"), skip |-> Bool(TRUE)])]),
    RouteNode(<<"help">>, "",
              [pageContext |-> Str("Help"), breadcrumb |-> Obj([icon |-> Str("help")])]),
    RouteNode(<<"profile">>, "",
              [pageContext |-> Obj([title |-> Bool(TRUE)]), breadcrumb |-> Str("Profile")]),
    RouteNode(<<"analytics">>, "",
              [pageContext |-> Obj([title |-> Str("Analytics"), searchPlaceholder |-> Str("")]),
               breadcrumb |-> Undefined]) }

\* the active paths of up to MaxDepth nodes over RoutePool
RouteTrees == UNION {[1..n -> RoutePool] : n \in 1..MaxDepth}

\* route nodes told apart by their breadcrumb data only: absent, a string, a
\* config with a string label and an icon, with a function label, marked
\* skip, and without a label
BreadcrumbPool ==
  { RouteNode(<<>>, "", [pageContext |-> Undefined, breadcrumb |-> Undefined]),
    RouteNode(<<"dashboard">>, "", [pageContext |-> Undefined, breadcrumb |-> Str("Dashboard")]),
    RouteNode(<<"projects">>, "",
              [pageContext |-> Undefined,
               breadcrumb |-> Obj([label |-> Str("Projects"), icon |-> Str("folder")])]),
    RouteNode(<<"tasks", "7">>, "7",
              [pageContext |-> Undefined, breadcrumb |-> Obj([label |-> Fn("Task ")])]),
    RouteNode(<<"settings">>, "",
              [pageContext |-> Undefined,
               breadcrumb |-> Obj([label |-> Str("Settings"), skip |-> Bool(TRUE)])]),
    RouteNode(<<"help">>, "",
              [pageContext |-> Undefined, breadcrumb |-> Obj([icon |-> Str("help")])]) }

BreadcrumbTrees == UNION {[1..n -> BreadcrumbPool] : n \in 1..MaxDepth}

\* some of these nodes, and a node whose label function throws
ThrowPool ==
  {node \in BreadcrumbPool : node.url \in {<<>>, <<"dashboard">>, <<"tasks", "7">>}}
    \cup {RouteNode(<<"reports">>, "",
                    [pageContext |-> Undefined, breadcrumb |-> Obj([label |-> FnThrows])])}

ThrowTrees == UNION {[1..n -> ThrowPool] : n \in 1..MaxDepth}

\* ------------------------------------------------------- BreadcrumbStore
isBreadcrumbRouteConfig(value) ==
  /\ value.type = "object"
  /\ Has(value, "label")
  /\ value.fields["label"].type \in {"string", "function"}

resolveLabel(label, params) ==
  IF label.type = "function" THEN label.value \o params.id ELSE label.value

\* route.url.map(segment => segment.path).join('/')
RECURSIVE join(_)
join(segments) ==
  IF segments = <<>> THEN ""
  ELSE IF Len(segments) = 1 THEN segments[1]
  ELSE segments[1] \o "/" \o join(Tail(segments))

Home == [label |-> "Home", url |-> "/", icon |-> "home", isActive |-> FALSE]

\* a builder that does not seed the list
noSeed(crumbs) == crumbs

\* the first visit seeds the list with Home
seed(crumbs) == IF Len(crumbs) = 0 THEN <<Home>> ELSE crumbs

\* a builder that gives each node the URL of its own segments only
accumulateOwn(url, node) ==
  LET routeUrl == join(node.url)
  IN IF routeUrl # "" THEN "/" \o routeUrl ELSE url

\* the URL accumulated after a node: its segments, when it has any, are added
accumulate(url, node) ==
  LET routeUrl == join(node.url)
  IN IF routeUrl # "" THEN url \o "/" \o routeUrl ELSE url

\* the breadcrumb a node contributes, if any, is pushed; an absent icon is
\* "undefined"
visit(node, url, crumbs) ==
  LET breadcrumbConfig == node.data.breadcrumb
  IN IF isBreadcrumbRouteConfig(breadcrumbConfig)
          /\ ~ OrElse(breadcrumbConfig, "skip", FALSE)
       THEN Append(crumbs,
                   [label |-> resolveLabel(breadcrumbConfig.fields["label"], node.params),
                    url |-> url,
                    icon |-> OrElse(breadcrumbConfig, "icon", "undefined"),
                    isActive |-> FALSE])
     ELSE IF breadcrumbConfig.type = "string"
       THEN Append(crumbs, [label |-> breadcrumbConfig.value, url |-> url,
                            icon |-> "undefined", isActive |-> FALSE])
     ELSE crumbs

\* a base case that marks nothing
markNone(crumbs) == crumbs

\* a base case that leaves a list of Home alone as it is
markActiveBeyondHome(crumbs) ==
  IF Len(crumbs) > 1 THEN [crumbs EXCEPT ![Len(crumbs)].isActive = TRUE] ELSE crumbs

\* the base case: the last breadcrumb becomes the active one
markActive(crumbs) ==
  IF Len(crumbs) > 0 THEN [crumbs EXCEPT ![Len(crumbs)].isActive = TRUE] ELSE crumbs

\* buildBreadcrumbsFromRoute(route, url, breadcrumbs); route[1] is the node
\* visited, Tail(route) its firstChild chain
RECURSIVE buildBreadcrumbsFromRoute(_, _, _)
buildBreadcrumbsFromRoute(route, url, crumbs) ==
  LET newUrl == accumulate(url, route[1])
      pushed == visit(route[1], newUrl, seed(crumbs))
  IN IF Len(route) > 1
       THEN buildBreadcrumbsFromRoute(Tail(route), newUrl, pushed)
       ELSE markActive(pushed)

\* event.urlAfterRedirects of a navigation that ends on the active path root
urlAfterRedirects(root) ==
  LET RECURSIVE path(_, _)
      path(route, url) == IF route = <<>> THEN url
                          ELSE path(Tail(route), accumulate(url, route[1]))
  IN IF path(root, "") = "" THEN "/" ELSE path(root, "")

\* the build does not return: resolveLabel calls a label function that throws,
\* for a node whose config is valid and not marked skip
buildThrows(route) ==
  \E i \in DOMAIN route :
    LET breadcrumbConfig == route[i].data.breadcrumb
    IN /\ isBreadcrumbRouteConfig(breadcrumbConfig)
       /\ ~ OrElse(breadcrumbConfig, "skip", FALSE)
       /\ breadcrumbConfig.fields["label"].type = "function"
       /\ breadcrumbConfig.fields["label"].throws

\* a subscriber that hands the published list to the builder as the list to
\* build on
subscriberMerges(published, rootSnapshot) ==
  IF buildThrows(rootSnapshot) THEN published
  ELSE buildBreadcrumbsFromRoute(rootSnapshot, "", published)

\* a subscriber that catches the failure of the build and publishes an empty
\* list
subscriberClearsOnFailure(published, rootSnapshot) ==
  IF buildThrows(rootSnapshot) THEN <<>>
  ELSE buildBreadcrumbsFromRoute(rootSnapshot, "", <<>>)

\* the NavigationEnd subscriber of BreadcrumbStore: what _breadcrumbs holds
\* after it has run. An exception of the build leaves the callback before
\* _breadcrumbs.set; the subscription stays open (the exception thrown by a
\* next callback is reported, not propagated).
subscriber(published, rootSnapshot) ==
  IF buildThrows(rootSnapshot) THEN published
  ELSE buildBreadcrumbsFromRoute(rootSnapshot, "", <<>>)

\* ------------------------------------------- PageContextStore, search part
\* a setSearchQuery that also drops the results of the query it replaces
setSearchQueryDropResults(state, query) == [state EXCEPT !.query = query, !.results = <<>>]

setSearchQuery(state, query) == [state EXCEPT !.query = query]

setSearching(state, isSearching) == [state EXCEPT !.isSearching = isSearching]

\* a setSearchResults that leaves isSearching as it is
setSearchResultsKeepSearching(state, results) ==
  [state EXCEPT !.results = results, !.error = Null]

setSearchResults(state, results) ==
  [state EXCEPT !.results = results, !.isSearching = FALSE, !.error = Null]

\* a setSearchError that keeps the results
setSearchErrorKeepResults(state, error) ==
  [state EXCEPT !.error = error, !.isSearching = FALSE]

setSearchError(state, error) ==
  [state EXCEPT !.error = error, !.isSearching = FALSE, !.results = <<>>]

clearSearch == [query |-> "", isSearching |-> FALSE, results |-> <<>>, error |-> Null]

\* ------------------------------------------------------- SearchDispatcher
createSearchParams(query, pageId) ==
  [query |-> query, pageId |-> pageId, limit |-> 10, offset |-> 0]

createEmptySearchResponse(query) ==
  [results |-> <<>>, total |-> 0, query |-> query, executionTimeMs |-> 0]

\* A handler: its pageId, whether it has the optional canHandle, and the
\* pageIds canHandle accepts.
Handler(pageId, hasCanHandle, accepts) ==
  [pageId |-> pageId, hasCanHandle |-> hasCanHandle, canHandle |-> accepts]

\* handlersMap.get(pageId): 0 (undefined) or the index of the entry
getHandler(map, pageId) ==
  IF \E i \in 1..Len(map) : map[i].pageId = pageId
    THEN CHOOSE i \in 1..Len(map) : map[i].pageId = pageId
    ELSE 0

\* handlersMap.has(pageId)
hasHandler(map, pageId) == \E i \in 1..Len(map) : map[i].pageId = pageId

\* a lookup that asks the canHandle predicates only
findByCanHandle(map, pageId) ==
  LET can == {i \in 1..Len(map) : map[i].hasCanHandle /\ pageId \in map[i].canHandle}
  IN IF can = {} THEN 0 ELSE CHOOSE i \in can : \A j \in can : i <= j

\* findHandler: exact match, else the first handler in map order whose
\* canHandle accepts the pageId, else 0 (null)
findHandler(map, pageId) ==
  IF getHandler(map, pageId) # 0 THEN getHandler(map, pageId)
  ELSE LET can == {i \in 1..Len(map) : map[i].hasCanHandle /\ pageId \in map[i].canHandle}
       IN IF can = {} THEN 0 ELSE CHOOSE i \in can : \A j \in can : i <= j

\* the handlers findHandler asks canHandle before it returns (none on an
\* exact match)
canHandleAsked(map, pageId) ==
  IF getHandler(map, pageId) # 0 THEN {}
  ELSE {i \in 1..Len(map) : /\ map[i].hasCanHandle
                            /\ (findHandler(map, pageId) = 0 \/ i <= findHandler(map, pageId))}

\* a pipeline without distinctUntilChanged: every debounced value passes
noDistinct(prev, query) == TRUE

\* distinctUntilChanged: does the value pass, given what passed last
distinctUntilChanged(prev, query) == prev # <<query>>

\* a mergeMap in the place of switchMap: earlier inners stay subscribed
mergeMap(inner) == inner

\* switchMap, when a value reaches it: the inner subscriptions it held are
\* unsubscribed
switchMap(inner) == [i \in DOMAIN inner |-> [inner[i] EXCEPT !.subscribed = FALSE]]

\* history: every call in flight has seen a later value reach switchMap
Supersede(inner) == [i \in DOMAIN inner |-> [inner[i] EXCEPT !.superseded = TRUE]]

\* what a handler answers to a call: a result list that names the request,
\* or an empty list
Response(call, hits) ==
  IF hits = "hits"
    THEN [results |-> <<[id |-> call.params.query, url |-> call.params.pageId]>>,
          query |-> call.params.query]
    ELSE [results |-> <<>>, query |-> call.params.query]

Range(seq) == {seq[i] : i \in DOMAIN seq}

Remove(seq, i) == [j \in 1..(Len(seq) - 1) |-> IF j < i THEN seq[j] ELSE seq[j + 1]]

Op(op, call, before, after) ==
  [op |-> op, call |-> call, changed |-> before # after,
   burst |-> IF op = "DebounceFire" THEN burst ELSE FALSE]

\* the handlers the constructor is given and registers, in order
InjectedHandlers == <<Handler("/dashboard/projects", FALSE, {}),
                      Handler("/dashboard/tasks", TRUE, {"/dashboard/tasks"})>>

\* ------------------------------------------------------------------ Init
Init ==
  /\ router = [url |-> "/dashboard", root |-> RouteTree("/dashboard")]
  /\ breadcrumbs = buildBreadcrumbsFromRoute(router.root, "", <<>>)
  /\ options = DEFAULT_SEARCH_OPTIONS
  /\ dueTime = DEFAULT_SEARCH_OPTIONS.debounceMs
  /\ registryLog = [i \in DOMAIN InjectedHandlers |->
                      [op |-> "register", pageId |-> InjectedHandlers[i].pageId,
                       handler |-> InjectedHandlers[i]]]
  /\ context = buildContextFromRoute(deepest(router.root).data, router.url)
  /\ searchState = InitialSearchState
  /\ handlersMap = InjectedHandlers
  /\ pending = <<>>
  /\ lastDistinct = <<>>
  /\ pipelineOpen = TRUE
  /\ calls = <<>>
  /\ dispatchedOn = <<>>
  /\ failedSeen = FALSE
  /\ burst = FALSE
  /\ last = Op("init", <<>>, searchState, searchState)

\* --------------------------------------------------------------- actions
\* a dispatch that also starts the search: isSearching is raised at once
dispatchSearching(query) ==
  /\ searchState' = setSearching(setSearchQuery(searchState, query), TRUE)
  /\ pending' = IF pipelineOpen THEN <<query>> ELSE pending
  /\ dispatchedOn' = IF pipelineOpen THEN <<context.pageId>> ELSE dispatchedOn
  /\ burst' = (pipelineOpen /\ pending # <<>> /\ pending # <<"">>)
  /\ last' = Op("dispatch", <<>>, searchState, searchState')
  /\ UNCHANGED <<router, breadcrumbs, options, dueTime, registryLog,
                 context, handlersMap, lastDistinct, pipelineOpen, calls, failedSeen>>

\* SearchDispatcher.dispatch(query)
dispatch(query) ==
  /\ searchState' = setSearchQuery(searchState, query)
  /\ pending' = IF pipelineOpen THEN <<query>> ELSE pending
  /\ dispatchedOn' = IF pipelineOpen THEN <<context.pageId>> ELSE dispatchedOn
  /\ burst' = (pipelineOpen /\ pending # <<>> /\ pending # <<"">>)
  /\ last' = Op("dispatch", <<>>, searchState, searchState')
  /\ UNCHANGED <<router, breadcrumbs, options, dueTime, registryLog,
                 context, handlersMap, lastDistinct, pipelineOpen, calls, failedSeen>>

\* SearchDispatcher.clear()
clear ==
  /\ searchState' = clearSearch
  /\ pending' = IF pipelineOpen THEN <<"">> ELSE pending
  /\ dispatchedOn' = IF pipelineOpen THEN <<context.pageId>> ELSE dispatchedOn
  /\ burst' = FALSE
  /\ last' = Op("clear", <<>>, searchState, searchState')
  /\ UNCHANGED <<router, breadcrumbs, options, dueTime, registryLog,
                 context, handlersMap, lastDistinct, pipelineOpen, calls, failedSeen>>

\* a NavigationEnd subscriber that sets the context and forgets clearSearch()
NavigationEndKeepsSearch(url) ==
  /\ router' = [url |-> url, root |-> RouteTree(url)]
  /\ breadcrumbs' = buildBreadcrumbsFromRoute(router'.root, "", <<>>)
  /\ context' = buildContextFromRoute(deepest(router'.root).data, url)
  /\ searchState' = searchState
  /\ last' = Op("NavigationEnd", <<>>, searchState, searchState')
  /\ UNCHANGED <<options, dueTime, registryLog,
                 handlersMap, pending, lastDistinct, pipelineOpen, calls,
                 dispatchedOn, burst, failedSeen>>

\* the router ends a navigation on the active path root with URL url, and
\* the NavigationEnd subscribers of BreadcrumbStore and PageContextStore run
RouterNavigationEnd(root, url) ==
  /\ router' = [url |-> url, root |-> root]
  /\ breadcrumbs' = subscriber(breadcrumbs, router'.root)
  /\ context' = buildContextFromRoute(deepest(router'.root).data, url)
  /\ searchState' = clearSearch
  /\ last' = Op("NavigationEnd", <<>>, searchState, searchState')
  /\ UNCHANGED <<options, dueTime, registryLog,
                 handlersMap, pending, lastDistinct, pipelineOpen, calls,
                 dispatchedOn, burst, failedSeen>>

\* a navigation that ends on one of the application's pages
NavigationEnd(url) == RouterNavigationEnd(RouteTree(url), url)

\* an executeSearch that resolves the handler for the pageId captured when
\* the query was dispatched
executeSearchCaptured(query) ==
  LET pageId == dispatchedOn[1]
      handler == findHandler(handlersMap, pageId)
      call == [handler |-> handlersMap[handler].pageId,
               params |-> createSearchParams(query, pageId),
               subscribed |-> TRUE, superseded |-> FALSE]
  IN IF handler = 0
       THEN /\ calls' = Supersede(switchMap(calls))
            /\ searchState' = setSearchResults(searchState,
                                               createEmptySearchResponse(query).results)
            /\ last' = Op("DebounceFire", <<>>, searchState, searchState')
       ELSE /\ Len(calls) < MaxInFlight
            /\ searchState' = setSearching(searchState, TRUE)
            /\ calls' = Append(Supersede(switchMap(calls)), call)
            /\ last' = Op("DebounceFire", <<call>>, searchState, searchState')

\* executeSearch(query), run by switchMap for a value that passed the gates,
\* together with what its returned Observable does at once
executeSearch(query) ==
  LET pageId == context.pageId
      handler == findHandler(handlersMap, pageId)
      call == [handler |-> handlersMap[handler].pageId,
               params |-> createSearchParams(query, pageId),
               subscribed |-> TRUE, superseded |-> FALSE]
  IN IF handler = 0
       THEN \* of(createEmptySearchResponse(query)) reaches subscribe.next
            /\ calls' = Supersede(switchMap(calls))
            /\ searchState' = setSearchResults(searchState,
                                               createEmptySearchResponse(query).results)
            /\ last' = Op("DebounceFire", <<>>, searchState, searchState')
       ELSE /\ Len(calls) < MaxInFlight
            /\ searchState' = setSearching(searchState, TRUE)
            /\ calls' = Append(Supersede(switchMap(calls)), call)
            /\ last' = Op("DebounceFire", <<call>>, searchState, searchState')

\* the debounce timer expires: the held value goes down the pipeline
DebounceFire ==
  /\ pending # <<>>
  /\ pending' = <<>>
  /\ dispatchedOn' = <<>>
  /\ burst' = FALSE
  /\ LET query == pending[1]
     IN IF ~ distinctUntilChanged(lastDistinct, query)
          THEN /\ UNCHANGED <<searchState, lastDistinct, calls>>
               /\ last' = Op("DebounceFire", <<>>, searchState, searchState')
          ELSE /\ lastDistinct' = <<query>>
               /\ IF Len(query) = 0
                    THEN \* filter: empty query = clear
                         /\ searchState' = clearSearch
                         /\ last' = Op("DebounceFire", <<>>, searchState, searchState')
                         /\ UNCHANGED calls
                  ELSE IF Len(query) < options.minQueryLength
                    THEN \* tap: too short, clear the results; filter drops it
                         /\ searchState' = setSearchResults(searchState, <<>>)
                         /\ last' = Op("DebounceFire", <<>>, searchState, searchState')
                         /\ UNCHANGED calls
                  ELSE executeSearch(query)
  /\ UNCHANGED <<router, breadcrumbs, options, dueTime, registryLog,
                 context, handlersMap, pipelineOpen, failedSeen>>

\* the Observable of the i-th call in flight emits its response and
\* completes; subscribe.next runs when the call is still subscribed
HandlerRespond(i, hits) ==
  /\ i \in 1..Len(calls)
  /\ calls' = Remove(calls, i)
  /\ searchState' = IF calls[i].subscribed
                      THEN setSearchResults(searchState, Response(calls[i], hits).results)
                      ELSE searchState
  /\ last' = Op("HandlerRespond", <<calls[i]>>, searchState, searchState')
  /\ UNCHANGED <<router, breadcrumbs, options, dueTime, registryLog,
                 context, handlersMap, pending, lastDistinct, pipelineOpen,
                 dispatchedOn, burst, failedSeen>>

\* a catchError that swallows the failure and writes nothing
catchErrorSwallows(state, call, message) == state

\* catchError of executeSearch: write the error, go on with
\* of(createEmptySearchResponse(query)), which reaches subscribe.next
catchError(state, call, message) ==
  setSearchResults(
    setSearchError(state, IF message = "" THEN "Search failed" ELSE message),
    createEmptySearchResponse(call.params.query).results)

\* executeSearch without its catchError: the failure of a subscribed call
\* reaches subscribe.error and closes the pipeline's subscription
HandlerFailUncaught(i, message) ==
  /\ i \in 1..Len(calls)
  /\ calls' = IF calls[i].subscribed THEN switchMap(Remove(calls, i)) ELSE Remove(calls, i)
  /\ searchState' = IF calls[i].subscribed
                      THEN setSearchError(searchState, "Search failed")
                      ELSE searchState
  /\ pipelineOpen' = (pipelineOpen /\ ~ calls[i].subscribed)
  /\ pending' = IF calls[i].subscribed THEN <<>> ELSE pending
  /\ failedSeen' = (failedSeen \/ calls[i].subscribed)
  /\ last' = Op("HandlerFail", <<calls[i]>>, searchState, searchState')
  /\ UNCHANGED <<router, breadcrumbs, options, dueTime, registryLog,
                 context, handlersMap, lastDistinct, dispatchedOn, burst>>

\* the Observable of the i-th call in flight fails with error.message = message
HandlerFail(i, message) ==
  /\ i \in 1..Len(calls)
  /\ calls' = Remove(calls, i)
  /\ searchState' = IF calls[i].subscribed
                      THEN catchError(searchState, calls[i], message)
                      ELSE searchState
  /\ failedSeen' = (failedSeen \/ calls[i].subscribed)
  /\ last' = Op("HandlerFail", <<calls[i]>>, searchState, searchState')
  /\ UNCHANGED <<router, breadcrumbs, options, dueTime, registryLog,
                 context, handlersMap, pending, lastDistinct, pipelineOpen,
                 dispatchedOn, burst>>

\* The timer expires on a value that passes the gates and executeSearch
\* throws synchronously: a canHandle predicate asked by findHandler throws
\* (where = "canHandle"), or handler.search itself does (where = "search").
\* switchMap forwards the exception to subscribe.error and the pipeline's
\* subscription, with every inner subscription, is closed.
DebounceFireThrows(where) ==
  /\ pending # <<>>
  /\ LET query == pending[1]
         pageId == context.pageId
     IN /\ distinctUntilChanged(lastDistinct, query)
        /\ Len(query) >= options.minQueryLength
        /\ lastDistinct' = <<query>>
        /\ \/ /\ where = "canHandle"
              /\ canHandleAsked(handlersMap, pageId) # {}
           \/ /\ where = "search"
              /\ findHandler(handlersMap, pageId) # 0
  /\ searchState' = setSearchError(IF where = "search"
                                     THEN setSearching(searchState, TRUE)
                                     ELSE searchState,
                                   "Search failed")
  /\ last' = Op("DebounceFireThrows", <<>>, searchState, searchState')
  /\ pending' = <<>>
  /\ dispatchedOn' = <<>>
  /\ burst' = FALSE
  /\ calls' = Supersede(switchMap(calls))
  /\ pipelineOpen' = FALSE
  /\ UNCHANGED <<router, breadcrumbs, options, dueTime, registryLog,
                 context, handlersMap, failedSeen>>

Next ==
  \/ \E q \in Queries : dispatch(q)
  \/ clear
  \/ \E url \in Pages : NavigationEnd(url)
  \/ DebounceFire
  \/ \E i \in 1..MaxInFlight, hits \in {"hits", "none"} : HandlerRespond(i, hits)
  \/ \E i \in 1..MaxInFlight, message \in Messages : HandlerFail(i, message)

\* handlers that honour their interface: search returns its Observable and
\* canHandle its boolean
Spec == Init /\ [][Next]_vars

\* the Observable of the call the pipeline is subscribed to emits or fails
SubscribedCallEnds ==
  \E i \in 1..MaxInFlight :
    /\ i \in 1..Len(calls)
    /\ calls[i].subscribed
    /\ \/ \E hits \in {"hits", "none"} : HandlerRespond(i, hits)
       \/ \E message \in Messages : HandlerFail(i, message)

\* the pipeline with navigation, for an empty, a too short and a valid query
NextLive ==
  \/ \E q \in {"", "a", "abc"} : dispatch(q)
  \/ clear
  \/ \E url \in Pages : NavigationEnd(url)
  \/ DebounceFire
  \/ \E i \in 1..MaxInFlight, hits \in {"hits", "none"} : HandlerRespond(i, hits)
  \/ \E i \in 1..MaxInFlight, message \in Messages : HandlerFail(i, message)

\* handlers whose Observables end: the call the pipeline waits for does not
\* stay unanswered for ever
SpecLive == Init /\ [][NextLive]_vars /\ WF_vars(SubscribedCallEnds)

\* a registerHandler that keeps the handler already registered for the pageId
registerHandlerKeepFirst(handler) ==
  /\ Len(registryLog) < MaxRegistryOps
  /\ handlersMap' = IF hasHandler(handlersMap, handler.pageId)
                      THEN handlersMap
                      ELSE Append(handlersMap, handler)
  /\ registryLog' = Append(registryLog, [op |-> "register", pageId |-> handler.pageId,
                                          handler |-> handler])
  /\ last' = Op("registerHandler", <<>>, searchState, searchState)
  /\ UNCHANGED <<router, breadcrumbs, options, dueTime,
                 context, searchState, pending, lastDistinct,
                 pipelineOpen, calls, dispatchedOn, burst, failedSeen>>

\* SearchDispatcher.registerHandler(handler): Map.set replaces the value of
\* a key that is present, in place, and adds a new key at the end
registerHandler(handler) ==
  /\ Len(registryLog) < MaxRegistryOps
  /\ handlersMap' = IF hasHandler(handlersMap, handler.pageId)
                      THEN [handlersMap EXCEPT ![getHandler(handlersMap, handler.pageId)] = handler]
                      ELSE Append(handlersMap, handler)
  /\ registryLog' = Append(registryLog, [op |-> "register", pageId |-> handler.pageId,
                                          handler |-> handler])
  /\ last' = Op("registerHandler", <<>>, searchState, searchState)
  /\ UNCHANGED <<router, breadcrumbs, options, dueTime,
                 context, searchState, pending, lastDistinct,
                 pipelineOpen, calls, dispatchedOn, burst, failedSeen>>

\* SearchDispatcher.unregisterHandler(pageId): Map.delete
unregisterHandler(pageId) ==
  /\ Len(registryLog) < MaxRegistryOps
  /\ handlersMap' = IF hasHandler(handlersMap, pageId)
                      THEN Remove(handlersMap, getHandler(handlersMap, pageId))
                      ELSE handlersMap
  /\ registryLog' = Append(registryLog, [op |-> "unregister", pageId |-> pageId,
                                          handler |-> Handler(pageId, FALSE, {})])
  /\ last' = Op("unregisterHandler", <<>>, searchState, searchState)
  /\ UNCHANGED <<router, breadcrumbs, options, dueTime,
                 context, searchState, pending, lastDistinct,
                 pipelineOpen, calls, dispatchedOn, burst, failedSeen>>

\* the handler registry on its own
NextRegistry ==
  \/ \E handler \in HandlerPool \cup Range(InjectedHandlers) : registerHandler(handler)
  \/ \E pageId \in Pages : unregisterHandler(pageId)

SpecRegistry == Init /\ [][NextRegistry]_vars

\* navigation over arbitrary route trees
NextRoute ==
  \E root \in RouteTrees : RouterNavigationEnd(root, urlAfterRedirects(root))

SpecRoute == Init /\ [][NextRoute]_vars

\* SearchDispatcher.configure(partial), called before the dispatcher is
\* used: this.options = {...this.options, ...partial}. The pipeline, with its
\* debounceTime(this.options.debounceMs), was built by the constructor.
configure(partial) ==
  /\ last.op \in {"init", "configure"}
  /\ options' = [k \in DOMAIN options |->
                   IF k \in DOMAIN partial THEN partial[k] ELSE options[k]]
  /\ last' = Op("configure", <<>>, searchState, searchState)
  /\ UNCHANGED <<router, breadcrumbs, dueTime, registryLog,
                 context, searchState, handlersMap, pending, lastDistinct,
                 pipelineOpen, calls, dispatchedOn, burst, failedSeen>>

\* the dispatcher configured before its first use
NextConfigure ==
  \/ Next
  \/ \E partial \in Partials : configure(partial)

SpecConfigure == Init /\ [][NextConfigure]_vars

\* BreadcrumbStore.refresh(): an exception of the build reaches the caller
\* before _breadcrumbs.set
BreadcrumbStore_refresh ==
  /\ breadcrumbs' = IF buildThrows(router.root) THEN breadcrumbs
                    ELSE buildBreadcrumbsFromRoute(router.root, "", <<>>)
  /\ last' = Op("refresh", <<>>, searchState, searchState)
  /\ UNCHANGED <<router, options, dueTime, registryLog,
                 context, searchState, handlersMap, pending, lastDistinct,
                 pipelineOpen, calls, dispatchedOn, burst, failedSeen>>

\* BreadcrumbStore.reset()
BreadcrumbStore_reset ==
  /\ breadcrumbs' = <<>>
  /\ last' = Op("reset", <<>>, searchState, searchState)
  /\ UNCHANGED <<router, options, dueTime, registryLog,
                 context, searchState, handlersMap, pending, lastDistinct,
                 pipelineOpen, calls, dispatchedOn, burst, failedSeen>>

\* BreadcrumbStore on its own, with label functions that return
NextBreadcrumb ==
  \/ \E root \in BreadcrumbTrees : RouterNavigationEnd(root, urlAfterRedirects(root))
  \/ BreadcrumbStore_refresh
  \/ BreadcrumbStore_reset

SpecBreadcrumb == Init /\ [][NextBreadcrumb]_vars

\* BreadcrumbStore on its own, with a label function that throws
NextBreadcrumbThrow ==
  \/ \E root \in ThrowTrees : RouterNavigationEnd(root, urlAfterRedirects(root))
  \/ BreadcrumbStore_refresh
  \/ BreadcrumbStore_reset

SpecBreadcrumbThrow == Init /\ [][NextBreadcrumbThrow]_vars

\* ---- the public operations of PageContextStore, called directly
PageContextStore_setSearchQuery(query) ==
  /\ searchState' = setSearchQuery(searchState, query)
  /\ last' = Op("setSearchQuery", <<>>, searchState, searchState')
  /\ UNCHANGED <<router, breadcrumbs, options, dueTime, registryLog,
                 context, handlersMap, pending, lastDistinct, pipelineOpen, calls,
                 dispatchedOn, burst, failedSeen>>

PageContextStore_setSearching(isSearching) ==
  /\ searchState' = setSearching(searchState, isSearching)
  /\ last' = Op("setSearching", <<>>, searchState, searchState')
  /\ UNCHANGED <<router, breadcrumbs, options, dueTime, registryLog,
                 context, handlersMap, pending, lastDistinct, pipelineOpen, calls,
                 dispatchedOn, burst, failedSeen>>

PageContextStore_setSearchResults(results) ==
  /\ searchState' = setSearchResults(searchState, results)
  /\ last' = Op("setSearchResults", <<>>, searchState, searchState')
  /\ UNCHANGED <<router, breadcrumbs, options, dueTime, registryLog,
                 context, handlersMap, pending, lastDistinct, pipelineOpen, calls,
                 dispatchedOn, burst, failedSeen>>

PageContextStore_setSearchError(error) ==
  /\ searchState' = setSearchError(searchState, error)
  /\ last' = Op("setSearchError", <<>>, searchState, searchState')
  /\ UNCHANGED <<router, breadcrumbs, options, dueTime, registryLog,
                 context, handlersMap, pending, lastDistinct, pipelineOpen, calls,
                 dispatchedOn, burst, failedSeen>>

PageContextStore_clearSearch ==
  /\ searchState' = clearSearch
  /\ last' = Op("clearSearch", <<>>, searchState, searchState')
  /\ UNCHANGED <<router, breadcrumbs, options, dueTime, registryLog,
                 context, handlersMap, pending, lastDistinct, pipelineOpen, calls,
                 dispatchedOn, burst, failedSeen>>

\* PageContextStore.setContext(context): the context is replaced, the search
\* substate is not touched
setContext(newContext) ==
  /\ context' = newContext
  /\ last' = Op("setContext", <<>>, searchState, searchState)
  /\ UNCHANGED <<router, breadcrumbs, options, dueTime, registryLog,
                 searchState, handlersMap, pending, lastDistinct, pipelineOpen, calls,
                 dispatchedOn, burst, failedSeen>>

\* PageContextStore.reset()
PageContextStore_reset ==
  /\ context' = DEFAULT_PAGE_CONTEXT
  /\ searchState' = clearSearch
  /\ last' = Op("reset", <<>>, searchState, searchState')
  /\ UNCHANGED <<router, breadcrumbs, options, dueTime, registryLog,
                 handlersMap, pending, lastDistinct, pipelineOpen, calls,
                 dispatchedOn, burst, failedSeen>>

\* PageContextStore on its own: its operations in any order
NextStore ==
  \/ \E query \in Queries : PageContextStore_setSearchQuery(query)
  \/ \E isSearching \in BOOLEAN : PageContextStore_setSearching(isSearching)
  \/ \E results \in ResultLists : PageContextStore_setSearchResults(results)
  \/ \E error \in Messages : PageContextStore_setSearchError(error)
  \/ PageContextStore_clearSearch
  \/ \E url \in Pages : NavigationEnd(url)
  \/ \E newContext \in Contexts : setContext(newContext)
  \/ PageContextStore_reset

SpecStore == Init /\ [][NextStore]_vars

\* handlers that may also throw synchronously
NextThrow ==
  \/ Next
  \/ \E where \in {"canHandle", "search"} : DebounceFireThrows(where)

SpecThrow == Init /\ [][NextThrow]_vars

\* ---------------------------------------------------------------- claims
Ended == last.op \in {"HandlerRespond", "HandlerFail"}

\* C1 (switch-latest): when the Observable of a call emits or fails after a
\* later value has reached switchMap, nothing of the search substate changes:
\* the response of a superseded call is never written.
C1_SwitchLatest == (Ended /\ last.call[1].superseded) => ~ last.changed

\* C1 witness: on one page, the slow response of the first call arrives after
\* the call for a different query has published its results; they stay.
C1_Witness ==
  /\ last.op = "HandlerRespond"
  /\ last.call[1].superseded
  /\ ~ last.changed
  /\ searchState.results # <<>>
  /\ searchState.results[1].url = last.call[1].params.pageId
  /\ searchState.results[1].id # last.call[1].params.query
  /\ context.pageId = last.call[1].params.pageId

\* C2 (stale responses never overwrite fresher state): when the Observable
\* of a call emits or fails after a later input has settled (a later value
\* reached switchMap, or the value distinctUntilChanged let through last is
\* no longer the call's query: an empty or too short one), the search
\* substate does not change.
C2_StaleNeverOverwrites ==
  (Ended /\ (last.call[1].superseded \/ lastDistinct # <<last.call[1].params.query>>))
    => ~ last.changed

\* C3: when the Observable of a call emits or fails after a NavigationEnd
\* has moved the context to another page than the call's, the search
\* substate (results, error, isSearching) does not change.
C3_ResponseAfterNavigationDiscarded ==
  (Ended /\ last.call[1].params.pageId # context.pageId) => ~ last.changed

\* C4: right after a NavigationEnd has been processed the search substate is
\* at its zero value.
C4_NavigationClearsSearch ==
  last.op = "NavigationEnd" =>
    searchState = [query |-> "", isSearching |-> FALSE, results |-> <<>>, error |-> Null]

\* C4 witness: a navigation that found a search under way (a query typed, a
\* call in flight) and changed the substate to zero.
C4_Witness ==
  /\ last.op = "NavigationEnd"
  /\ last.changed
  /\ calls # <<>>
  /\ pending # <<>>
  /\ searchState = [query |-> "", isSearching |-> FALSE, results |-> <<>>, error |-> Null]

\* the timer expires on the last query of a burst, the query is at least
\* minQueryLength long and a handler resolves for the current page
BurstSettles ==
  /\ pending # <<>>
  /\ pending' = <<>>
  /\ Len(pending[1]) >= options.minQueryLength
  /\ findHandler(handlersMap, context.pageId) # 0

\* exactly one handler.search call is made by the step, with the burst's last
\* query (the one the timer held, which is the last one dispatch() wrote
\* into searchQuery unless a navigation has cleared that since)
OneCallForLastQuery ==
  /\ Len(calls') = Len(calls) + 1
  /\ calls'[Len(calls')].params.query = pending[1]
  /\ searchState.query \in {"", pending[1]}

\* C5 as claimed: every such burst results in exactly one handler call, with
\* the last query of the burst.
C5_BurstOneCall == [][BurstSettles => OneCallForLastQuery]_vars

\* C5 as amended: the burst results in exactly one handler call, with its
\* last query, when that query differs from the value that passed the
\* debounce last; when it equals it, distinctUntilChanged drops it and no
\* handler call results.
C5_BurstOneCallUnlessRepeated ==
  [][BurstSettles =>
       IF lastDistinct # <<pending[1]>>
         THEN OneCallForLastQuery
         ELSE calls' = calls /\ searchState' = searchState]_vars

\* C5 witness: a burst of two or more pushes has settled and its last query
\* is the one handler call in flight.
C5_Witness ==
  /\ last.op = "DebounceFire"
  /\ last.burst
  /\ last.call # <<>>
  /\ Len(calls) = 1
  /\ calls[1] = last.call[1]
  /\ calls[1].params.query = searchState.query

\* C6: once the empty query that dispatch("") pushed after a non-empty query
\* (one still waiting for the timer) has gone through the debounce,
\* searchQuery and searchResults are empty and no handler was called for it.
C6_EmptyQueryClears ==
  (last.op = "DebounceFire" /\ last.burst /\ lastDistinct = <<"">>) =>
    (searchState.query = "" /\ searchState.results = <<>> /\ last.call = <<>>)

\* C7: with handlers registered for two page ids, a query that dispatch()
\* pushed while one of them was the current pageId never makes the timer
\* expiry call the handler of the other.
C7_NeverTheOtherPagesHandler ==
  [][\A a, b \in Pages :
       ( /\ a # b
         /\ getHandler(handlersMap, a) # 0
         /\ getHandler(handlersMap, b) # 0
         /\ pending # <<>>
         /\ pending[1] # ""
         /\ dispatchedOn = <<a>>
         /\ Len(calls') = Len(calls) + 1 )
       => calls'[Len(calls')].handler # b]_vars

\* C8: once the failure of a call the pipeline is subscribed to has been
\* processed, searchError is the failure's message ('Search failed' when it
\* has none), isSearching is false and results are empty.
C8_FailureSetsError ==
  [][\A i \in 1..MaxInFlight, message \in Messages :
       (HandlerFail(i, message) /\ calls[i].subscribed) =>
         /\ searchState'.error = (IF message = "" THEN "Search failed" ELSE message)
         /\ searchState'.isSearching = FALSE
         /\ searchState'.results = <<>>]_vars

\* C9 (a failure is scoped to its query): after catchError has handled a
\* failed handler result,
\*  - dispatch(q) still hands q to the debounce timer,
\*  - the expiry of the timer on a query that is long enough and differs from
\*    the last one, on a page whose handler resolves, calls that handler with
\*    the query and subscribes to the call,
\*  - the response of a call that no later value has superseded is published:
\*    results are the response's, isSearching = false, error = null.
C9_AfterFailureDispatchArmsTimer ==
  (failedSeen /\ last.op = "dispatch") => pending = <<searchState.query>>

C9_AfterFailureExpiryCalls ==
  ( /\ failedSeen
    /\ BurstSettles
    /\ lastDistinct # <<pending[1]>> ) =>
  ( /\ Len(calls') = Len(calls) + 1
    /\ calls'[Len(calls')].handler =
         handlersMap[findHandler(handlersMap, context.pageId)].pageId
    /\ calls'[Len(calls')].params.query = pending[1]
    /\ calls'[Len(calls')].subscribed )

C9_AfterFailureResponsePublished ==
  (failedSeen /\ last.op = "HandlerRespond" /\ ~ last.call[1].superseded) =>
    /\ searchState.results \in {Response(last.call[1], "hits").results,
                                 Response(last.call[1], "none").results}
    /\ searchState.isSearching = FALSE
    /\ searchState.error = Null

C9_FailureScopedToItsQuery ==
  /\ []C9_AfterFailureDispatchArmsTimer
  /\ [][C9_AfterFailureExpiryCalls]_vars
  /\ []C9_AfterFailureResponsePublished

\* C9 witness: a failure has been handled and the response of a call made
\* afterwards has just been published.
C9_Witness ==
  /\ failedSeen
  /\ last.op = "HandlerRespond"
  /\ last.changed
  /\ searchState.results = Response(last.call[1], "hits").results

\* C10: a synchronous exception while a settled query is dispatched leaves
\* the generic search-error state and the pipeline's subscription open, so
\* that a later dispatch() still hands its query to the debounce timer.
C10_ExceptionKeepsPipeline ==
  /\ last.op = "DebounceFireThrows" =>
       (searchState.error = "Search failed" /\ pipelineOpen)
  /\ last.op = "dispatch" => pending = <<searchState.query>>

\* no handler is registered under the pageId and no handler's canHandle
\* accepts it
NoHandlerResolves(pageId) ==
  \A i \in 1..Len(handlersMap) :
    /\ handlersMap[i].pageId # pageId
    /\ ~ (handlersMap[i].hasCanHandle /\ pageId \in handlersMap[i].canHandle)

\* the timer expires on a query of at least minQueryLength characters
ValidQuerySettles ==
  /\ pending # <<>>
  /\ pending' = <<>>
  /\ Len(pending[1]) >= options.minQueryLength

\* no handler is called, and the outcome is an empty successful response
EmptySuccessfulResponse ==
  /\ Len(calls') = Len(calls)
  /\ searchState'.results = <<>>
  /\ searchState'.error = Null
  /\ searchState'.isSearching = FALSE
  /\ pipelineOpen'

\* C11: when a length-valid query settles and no handler resolves for the
\* current pageId, no handler is called and the search substate shows an
\* empty successful response (results = [], error = null, isSearching =
\* false); the pipeline's subscription stays open.
C11_NoHandlerEmptyResponse ==
  [][(ValidQuerySettles /\ NoHandlerResolves(context.pageId))
       => EmptySuccessfulResponse]_vars

\* C12: dispatch(q) writes q into searchQuery at once and hands it to the
\* debounce timer; it changes no other search field and calls no handler.
\* A handler is only called by the expiry of the timer, for the value the
\* timer held, which is the latest input, and the timer runs for debounceMs.
C12_DispatchWritesQueryOnly ==
  [][ /\ last'.op = "dispatch" =>
           \E q \in Queries :
             /\ searchState' = [query |-> q,
                                isSearching |-> searchState.isSearching,
                                results |-> searchState.results,
                                error |-> searchState.error]
             /\ pending' = <<q>>
             /\ calls' = calls
      /\ Len(calls') > Len(calls) =>
           /\ pending # <<>>
           /\ pending' = <<>>
           /\ calls'[Len(calls')].params.query = pending[1]
           /\ dueTime = options.debounceMs ]_vars

\* C12 witness: dispatch() has just replaced the query while results of an
\* earlier search are shown and a call is in flight; the query waits for the
\* timer.
C12_Witness ==
  /\ last.op = "dispatch"
  /\ last.changed
  /\ searchState.query # ""
  /\ pending = <<searchState.query>>
  /\ searchState.results # <<>>
  /\ calls # <<>>

\* the timer expires on a non-empty query shorter than minQueryLength
ShortQuerySettles ==
  /\ pending # <<>>
  /\ pending' = <<>>
  /\ Len(pending[1]) > 0
  /\ Len(pending[1]) < options.minQueryLength

\* C13 (minimum-length gate): when a non-empty query shorter than
\* minQueryLength settles, results are cleared to [], searchQuery is left as
\* it is and no handler is called.
C13_ShortQueryClearsResults ==
  [][ShortQuerySettles =>
       /\ searchState'.results = <<>>
       /\ searchState'.query = searchState.query
       /\ Len(calls') = Len(calls)]_vars

\* C14: the pipeline runs with the options configure() set before the first
\* dispatch: a query that reaches a handler has been the latest input for
\* options.debounceMs and is at least options.minQueryLength long.
C14_ConfigureSetsPipelineOptions ==
  (last.op = "DebounceFire" /\ last.call # <<>>) =>
    /\ dueTime = options.debounceMs
    /\ Len(last.call[1].params.query) >= options.minQueryLength

\* ---- the registry, told from the history of its calls
\* the place in the history of the last unregister(pageId), 0 when none
LastUnregister(pageId) ==
  LET at == {k \in DOMAIN registryLog :
               registryLog[k].op = "unregister" /\ registryLog[k].pageId = pageId}
  IN IF at = {} THEN 0 ELSE CHOOSE k \in at : \A j \in at : j <= k

\* the register(pageId) calls not followed by an unregister(pageId)
LiveRegisters(pageId) ==
  {k \in DOMAIN registryLog :
     /\ registryLog[k].op = "register"
     /\ registryLog[k].pageId = pageId
     /\ k > LastUnregister(pageId)}

\* the most recent of them and the earliest of them, 0 when none
LastRegister(pageId) ==
  IF LiveRegisters(pageId) = {} THEN 0
  ELSE CHOOSE k \in LiveRegisters(pageId) : \A j \in LiveRegisters(pageId) : j <= k

FirstRegister(pageId) ==
  IF LiveRegisters(pageId) = {} THEN 0
  ELSE CHOOSE k \in LiveRegisters(pageId) : \A j \in LiveRegisters(pageId) : k <= j

\* what a lookup returned: <<>> for undefined / null, else <<handler>>
Found(i) == IF i = 0 THEN <<>> ELSE <<handlersMap[i]>>

\* C15: get(pageId) is the handler of the most recent register for the
\* pageId that no unregister(pageId) followed, undefined when there is none,
\* and has(pageId) is true exactly when get(pageId) is defined.
C15_RegistryLastRegisterWins ==
  \A pageId \in Pages :
    /\ Found(getHandler(handlersMap, pageId)) =
         (IF LastRegister(pageId) = 0 THEN <<>>
          ELSE <<registryLog[LastRegister(pageId)].handler>>)
    /\ hasHandler(handlersMap, pageId) <=> (getHandler(handlersMap, pageId) # 0)

\* C15 witness: a pageId has been registered twice with different handlers
\* and get returns the second.
C15_Witness ==
  \E pageId \in Pages :
    /\ last.op = "registerHandler"
    /\ LastRegister(pageId) = Len(registryLog)
    /\ FirstRegister(pageId) # LastRegister(pageId)
    /\ registryLog[FirstRegister(pageId)].handler # registryLog[LastRegister(pageId)].handler
    /\ Found(getHandler(handlersMap, pageId)) = <<registryLog[LastRegister(pageId)].handler>>

\* the registered handlers whose canHandle accepts the pageId
Accepting(pageId) ==
  {p \in Pages : /\ LastRegister(p) # 0
                 /\ registryLog[LastRegister(p)].handler.hasCanHandle
                 /\ pageId \in registryLog[LastRegister(p)].handler.canHandle}

\* the lookup the registry should answer, with the accepting handlers taken
\* in the order given by at(p)
Lookup(pageId, at(_)) ==
  IF LastRegister(pageId) # 0 THEN <<registryLog[LastRegister(pageId)].handler>>
  ELSE IF Accepting(pageId) = {} THEN <<>>
  ELSE LET p == CHOOSE p \in Accepting(pageId) : \A r \in Accepting(pageId) : at(p) <= at(r)
       IN <<registryLog[LastRegister(p)].handler>>

\* C16 as claimed: the lookup returns the handler registered under exactly
\* the pageId when there is one; otherwise the first handler in registration
\* order (the order of the register calls that put the handlers in) whose
\* canHandle accepts the pageId; otherwise null.
C16_FindInRegistrationOrder ==
  \A pageId \in Pages :
    Found(findHandler(handlersMap, pageId)) = Lookup(pageId, LastRegister)

\* C16 as amended: ... otherwise the first handler whose canHandle accepts
\* the pageId, the handlers taken in the order in which their pageIds were
\* first registered since they were last unregistered (registering a pageId
\* again replaces its handler in place); otherwise null.
C16_FindInKeyOrder ==
  \A pageId \in Pages :
    Found(findHandler(handlersMap, pageId)) = Lookup(pageId, FirstRegister)

\* C16 witness: no handler is registered under the pageId, two registered
\* handlers accept it, and the lookup returns the one whose pageId was
\* registered first although its handler was registered last.
C16_Witness ==
  \E pageId \in Pages, p, r \in Pages :
    /\ LastRegister(pageId) = 0
    /\ {p, r} \subseteq Accepting(pageId)
    /\ FirstRegister(p) < FirstRegister(r)
    /\ LastRegister(r) < LastRegister(p)
    /\ Found(findHandler(handlersMap, pageId)) = <<registryLog[LastRegister(p)].handler>>

\* ---- the breadcrumb builder and the page-context resolver
\* the builder's output for the router's current route tree
Built == buildBreadcrumbsFromRoute(router.root, "", <<>>)

\* the node's breadcrumb data is a plain string, or a config with a string
\* or function label that is not marked skip
Contributes(node) ==
  LET config == node.data.breadcrumb
  IN \/ config.type = "string"
     \/ /\ config.type = "object"
        /\ "label" \in DOMAIN config.fields
        /\ config.fields["label"].type \in {"string", "function"}
        /\ ~ ("skip" \in DOMAIN config.fields /\ config.fields["skip"] = Bool(TRUE))

\* C17: for every route tree the builder returns a non-empty list whose
\* first element has label 'Home' and url '/'.
C17_HomeFirst ==
  /\ Built # <<>>
  /\ Built[1].label = "Home"
  /\ Built[1].url = "/"

\* C17 witness: a navigation over a tree of two nodes that both contribute
\* a breadcrumb has been processed and the published list starts with Home.
C17_Witness ==
  /\ last.op = "NavigationEnd"
  /\ Len(router.root) = 2
  /\ Len(breadcrumbs) = 3
  /\ breadcrumbs = Built
  /\ breadcrumbs[1].label = "Home"

\* C18: in the list built for a route tree that contributes at least one
\* breadcrumb beyond Home, the last element is active and no earlier one is.
C18_OnlyLastActive ==
  (\E i \in DOMAIN router.root : Contributes(router.root[i])) =>
    /\ Len(Built) > 1
    /\ Built[Len(Built)].isActive
    /\ \A i \in 1..(Len(Built) - 1) : ~ Built[i].isActive

\* C18 witness: a list of Home and two breadcrumbs, the last of them active,
\* built for a tree whose leaf contributes none.
C18_Witness ==
  /\ last.op = "NavigationEnd"
  /\ ~ Contributes(deepest(router.root))
  /\ breadcrumbs = Built
  /\ Len(breadcrumbs) = 2
  /\ breadcrumbs[2].isActive
  /\ ~ breadcrumbs[1].isActive

\* C19 as claimed: when no node of the route tree contributes a breadcrumb,
\* the built list is the single Home entry with isActive = false.
C19_HomeAloneNotActive ==
  (\A i \in DOMAIN router.root : ~ Contributes(router.root[i])) =>
    Built = <<[label |-> "Home", url |-> "/", icon |-> "home", isActive |-> FALSE]>>

\* C19 as amended: when no node of the route tree contributes a breadcrumb,
\* the built list is the single Home entry, and Home, being the last entry,
\* is marked active.
C19_HomeAloneActive ==
  (\A i \in DOMAIN router.root : ~ Contributes(router.root[i])) =>
    Built = <<[label |-> "Home", url |-> "/", icon |-> "home", isActive |-> TRUE]>>

\* C19 witness: a navigation over a tree of two nodes, one with a skipped
\* and one with a malformed config, has published the single active Home.
C19_Witness ==
  /\ last.op = "NavigationEnd"
  /\ Len(router.root) = 2
  /\ \A i \in DOMAIN router.root :
        router.root[i].data.breadcrumb.type = "object" /\ ~ Contributes(router.root[i])
  /\ breadcrumbs = <<[label |-> "Home", url |-> "/", icon |-> "home", isActive |-> TRUE]>>

\* the pageContext data is a config: an object whose title is a string
ValidPageContext(config) ==
  /\ config.type = "object"
  /\ "title" \in DOMAIN config.fields
  /\ config.fields["title"].type = "string"

\* C20: after a navigation the page context is resolved from the deepest
\* active leaf only: pageTitle is the title of its pageContext config when
\* that is valid, else its breadcrumb data when that is a plain string, else
\* 'Dashboard'; pageId is the navigation URL; searchPlaceholder and
\* searchEnabled are 'Search...' and true unless the valid config gives
\* searchPlaceholder / searchDisabled.
C20_ContextPrecedence ==
  last.op = "NavigationEnd" =>
    LET leaf == router.root[Len(router.root)].data
        config == leaf.pageContext
        given(key) == ValidPageContext(config) /\ key \in DOMAIN config.fields
    IN /\ context.pageTitle =
            (IF ValidPageContext(config) THEN config.fields["title"].value
             ELSE IF leaf.breadcrumb.type = "string" THEN leaf.breadcrumb.value
             ELSE "Dashboard")
       /\ context.pageId = router.url
       /\ context.searchPlaceholder =
            (IF given("searchPlaceholder") THEN config.fields["searchPlaceholder"].value
             ELSE "Search...")
       /\ context.searchEnabled =
            (IF given("searchDisabled") THEN ~ config.fields["searchDisabled"].value
             ELSE TRUE)

\* C20 witness: the leaf has both a valid pageContext config and breadcrumb
\* data, its parent has a valid config too, and the title is the leaf's
\* config title.
C20_Witness ==
  /\ last.op = "NavigationEnd"
  /\ Len(router.root) = 2
  /\ ValidPageContext(router.root[1].data.pageContext)
  /\ ValidPageContext(router.root[2].data.pageContext)
  /\ router.root[2].data.breadcrumb.type = "string"
  /\ router.root[1].data.pageContext.fields["title"] # router.root[2].data.pageContext.fields["title"]
  /\ context.pageTitle = router.root[2].data.pageContext.fields["title"].value
  /\ context.pageTitle # router.root[2].data.breadcrumb.value
  /\ ~ context.searchEnabled

\* ---- PageContextStore
\* C21: whenever an operation changes the page context (a NavigationEnd,
\* setContext, reset), the search substate is at its zero value right after
\* it: query = '', isSearching = false, results = [], error = null.
C21_ContextChangeClearsSearch ==
  [][context' # context =>
       searchState' = [query |-> "", isSearching |-> FALSE, results |-> <<>>,
                       error |-> Null]]_vars

\* C22: each search mutator changes the fields it names and nothing else:
\* setSearchQuery only query; setSearching only isSearching; setSearchResults
\* sets results and forces isSearching = false and error = null, leaving
\* query; setSearchError sets error and forces isSearching = false and
\* results = [], leaving query; clearSearch resets all four fields; none of
\* them changes the page context.
C22_MutatorFrames ==
  [][ /\ \A query \in Queries :
           PageContextStore_setSearchQuery(query) =>
             /\ searchState' = [query |-> query,
                                isSearching |-> searchState.isSearching,
                                results |-> searchState.results,
                                error |-> searchState.error]
             /\ context' = context
      /\ \A isSearching \in BOOLEAN :
           PageContextStore_setSearching(isSearching) =>
             /\ searchState' = [query |-> searchState.query,
                                isSearching |-> isSearching,
                                results |-> searchState.results,
                                error |-> searchState.error]
             /\ context' = context
      /\ \A results \in ResultLists :
           PageContextStore_setSearchResults(results) =>
             /\ searchState' = [query |-> searchState.query,
                                isSearching |-> FALSE,
                                results |-> results,
                                error |-> Null]
             /\ context' = context
      /\ \A error \in Messages :
           PageContextStore_setSearchError(error) =>
             /\ searchState' = [query |-> searchState.query,
                                isSearching |-> FALSE,
                                results |-> <<>>,
                                error |-> error]
             /\ context' = context
      /\ PageContextStore_clearSearch =>
           /\ searchState' = [query |-> "", isSearching |-> FALSE,
                              results |-> <<>>, error |-> Null]
           /\ context' = context ]_vars

\* C22 witness: setSearchQuery has just replaced the query of a state that
\* holds results and is searching on a page other than the initial one.
C22_Witness ==
  /\ last.op = "setSearchQuery"
  /\ last.changed
  /\ searchState.query = "abc"
  /\ searchState.isSearching
  /\ searchState.results # <<>>
  /\ context # DEFAULT_PAGE_CONTEXT

\* C29: in every state the operations of PageContextStore can reach, a
\* non-null searchError implies empty searchResults: results and an error
\* are never held together.
C29_ErrorExcludesResults ==
  searchState.error # Null => searchState.results = <<>>

\* C29 witness: setSearchError has just written an error into a state that
\* had a query; the results are empty.
C29_Witness ==
  /\ last.op = "setSearchError"
  /\ last.changed
  /\ searchState.error = "boom"
  /\ searchState.query = "abc"
  /\ searchState.results = <<>>

\* ---- BreadcrumbStore
\* C23: right after construction and right after each processed NavigationEnd
\* or refresh(), breadcrumbs is exactly the builder's output for the current
\* route tree, whatever the list published before; so the list is never empty
\* unless reset() was the last operation.
C23_PublishesFullRebuild ==
  /\ last.op \in {"init", "NavigationEnd", "refresh"} =>
       breadcrumbs = buildBreadcrumbsFromRoute(router.root, "", <<>>)
  /\ breadcrumbs = <<>> => last.op = "reset"

\* C23 witness: refresh() has published the full list of a tree of two
\* nodes, Home first and the last entry active.
C23_Witness ==
  /\ last.op = "refresh"
  /\ Len(router.root) = 2
  /\ Len(breadcrumbs) = 3
  /\ breadcrumbs[1].label = "Home"
  /\ breadcrumbs[3].isActive

\* the build for the tree fails: a node with a config that has a label
\* function and no skip mark has a function that throws
Fails(root) ==
  \E i \in DOMAIN root :
    LET config == root[i].data.breadcrumb
    IN /\ config.type = "object"
       /\ "label" \in DOMAIN config.fields
       /\ config.fields["label"] = FnThrows
       /\ "skip" \notin DOMAIN config.fields

\* C24: when the build fails while a NavigationEnd is handled, the published
\* list stays as it was (no partial list is published), and the next
\* NavigationEnd whose build succeeds publishes its full list.
C24_FailedBuildKeepsList ==
  [][last'.op = "NavigationEnd" =>
       IF Fails(router'.root)
         THEN breadcrumbs' = breadcrumbs
         ELSE breadcrumbs' = buildBreadcrumbsFromRoute(router'.root, "", <<>>)]_vars

\* C24 witness: a navigation whose build failed at the second node has been
\* handled and the list of Home and two breadcrumbs published before is
\* still there.
C24_Witness ==
  /\ last.op = "NavigationEnd"
  /\ Len(router.root) = 2
  /\ ~ Fails(<<router.root[1]>>)
  /\ router.root[1].data.breadcrumb.type = "string"
  /\ Fails(router.root)
  /\ Len(breadcrumbs) = 3
  /\ breadcrumbs[3].isActive

\* ---- the builder's entries
\* the nodes of the current tree that contribute an entry
Contributing == {i \in DOMAIN router.root : Contributes(router.root[i])}

\* the entry of the built list that belongs to contributing node i: Home
\* first, then one entry per contributing node, root to leaf
EntryOf(i) == Built[1 + Cardinality({k \in Contributing : k <= i})]

\* the label the node's data gives: the literal string, or the label
\* function applied to the node's params
LabelOf(node) ==
  LET config == node.data.breadcrumb
  IN IF config.type = "string" THEN config.value
     ELSE IF config.fields["label"].type = "string" THEN config.fields["label"].value
     ELSE config.fields["label"].value \o node.params.id

\* all URL segments from the root down to node i
RECURSIVE SegmentsTo(_)
SegmentsTo(i) == IF i = 0 THEN <<>> ELSE SegmentsTo(i - 1) \o router.root[i].url

\* '/' followed by the '/'-join of the segments
Slashed(segments) == "/" \o join(segments)

\* the same, and the empty string when there is no segment
SlashedOrEmpty(segments) == IF segments = <<>> THEN "" ELSE "/" \o join(segments)

\* C26 as claimed: after Home the built list has exactly one entry per
\* contributing node of the active path, root to leaf; nodes that do not
\* contribute add no entry but their segments count; each entry's url is '/'
\* followed by the '/'-join of all segments from the root down to its node,
\* and its label is the literal string or the label function applied to the
\* node's params.
C26_EntriesSlashUrl ==
  /\ Len(Built) = 1 + Cardinality(Contributing)
  /\ \A i \in Contributing :
       /\ EntryOf(i).label = LabelOf(router.root[i])
       /\ EntryOf(i).url = Slashed(SegmentsTo(i))

\* C26 as amended: ... each entry's url is '/' followed by the '/'-join of
\* all segments from the root down to its node when there is at least one
\* segment, and the empty string when there is none.
C26_EntriesAccumulatedUrl ==
  /\ Len(Built) = 1 + Cardinality(Contributing)
  /\ \A i \in Contributing :
       /\ EntryOf(i).label = LabelOf(router.root[i])
       /\ EntryOf(i).url = SlashedOrEmpty(SegmentsTo(i))

\* C26 witness: a navigation over a node marked skip and a leaf of two
\* segments with a label function has published Home and one entry, whose
\* url counts the segments of both nodes.
C26_Witness ==
  /\ last.op = "NavigationEnd"
  /\ Len(router.root) = 2
  /\ ~ Contributes(router.root[1])
  /\ router.root[1].url # <<>>
  /\ Len(router.root[2].url) = 2
  /\ Len(breadcrumbs) = 2
  /\ breadcrumbs[2].url = "/settings/tasks/7"
  /\ breadcrumbs[2].label = "Task 7"

\* ---- the pipeline and the page
\* C25: the call made for a settled query is made to the handler that
\* resolves for the pageId the context holds when the query reaches
\* executeSearch, and its params carry that pageId, the settled query,
\* limit = 10 and offset = 0.
C25_HandlerForCurrentPage ==
  [][Len(calls') > Len(calls) =>
       LET call == calls'[Len(calls')]
       IN /\ pending # <<>>
          /\ call.params = [query |-> pending[1], pageId |-> context.pageId,
                            limit |-> 10, offset |-> 0]
          /\ findHandler(handlersMap, context.pageId) # 0
          /\ call.handler = handlersMap[findHandler(handlersMap, context.pageId)].pageId]_vars

\* C25 witness: a query dispatched before a navigation has settled after it
\* (searchQuery is cleared, the timer still held the query) and the call
\* went to the handler of the page the navigation ended on, while a call
\* made on another page is still in flight.
C25_Witness ==
  /\ last.op = "DebounceFire"
  /\ last.call # <<>>
  /\ searchState.query = ""
  /\ last.call[1].params = [query |-> "abc", pageId |-> "/dashboard/tasks",
                            limit |-> 10, offset |-> 0]
  /\ last.call[1].handler = "/dashboard/tasks"
  /\ context.pageId = "/dashboard/tasks"
  /\ Len(calls) = 2
  /\ calls[1].params.pageId = "/dashboard/projects"

\* C27: the query q was searched on another page (its call is in flight and
\* no later value has reached switchMap), a navigation has ended on the
\* current page, which has a handler, and q was dispatched again there: when
\* the timer expires on it, the handler of the current page is called with q.
C27_FirstSearchOfNewPage ==
  [][\A q \in Queries :
       ( /\ pending = <<q>>
         /\ pending' = <<>>
         /\ Len(q) >= options.minQueryLength
         /\ dispatchedOn = <<context.pageId>>
         /\ findHandler(handlersMap, context.pageId) # 0
         /\ \E i \in DOMAIN calls : /\ calls[i].params.query = q
                                     /\ calls[i].params.pageId # context.pageId
                                     /\ ~ calls[i].superseded )
       => /\ Len(calls') = Len(calls) + 1
          /\ calls'[Len(calls')].params.query = q
          /\ calls'[Len(calls')].params.pageId = context.pageId]_vars

\* C28: isSearching = true implies that a call made by the pipeline is in
\* flight, still subscribed and not superseded.
C28_SearchingHasCallInFlight ==
  searchState.isSearching =>
    \E i \in DOMAIN calls : calls[i].subscribed /\ ~ calls[i].superseded

\* C28 witness: the response of a superseded call has just arrived and was
\* dropped; isSearching is still true and the call that superseded it is in
\* flight.
C28_Witness ==
  /\ last.op = "HandlerRespond"
  /\ last.call[1].superseded
  /\ searchState.isSearching
  /\ Len(calls) = 1
  /\ calls[1].subscribed

\* C30: whenever isSearching is true it eventually becomes false, and when no
\* value waits for the timer and no call is in flight it is false.
C30_SearchingEnds ==
  /\ searchState.isSearching ~> ~ searchState.isSearching
  /\ []((pending = <<>> /\ calls = <<>>) => ~ searchState.isSearching)

\* C30 witness: the response of the call the pipeline waited for has ended
\* the search and nothing is left pending.
C30_Witness ==
  /\ last.op = "HandlerRespond"
  /\ last.changed
  /\ ~ last.call[1].superseded
  /\ ~ searchState.isSearching
  /\ pending = <<>>
  /\ calls = <<>>
====
